---- MODULE Spec2Model ----
(***************************************************************************)
(* Input/output coordination core of the izzymonitor firmware:             *)
(*   - the shared UI state and the tasks of bin/async_main.rs              *)
(*     (key_watcher x 6, update_display, led_task, blink_backlight, main), *)
(*   - the 3-state debounce engine of bin/buttons.rs                       *)
(*     (Button::update_state, Button::process_long_press, watch_button),   *)
(*   - the colour pulse encoders (LedController::show of leds.rs and the   *)
(*     inline encoder of led_task).                                        *)
(* Each subsystem has its own specification over its own variables; the    *)
(* variables of the other subsystems are left unchanged.                   *)
(***************************************************************************)
EXTENDS Integers, Sequences, FiniteSets, TLC

VARIABLES
    \* ---- bin/async_main.rs ----
    UI_STATE,            \* static mut UI_STATE: Option<UIState>
    main_pc,             \* position of main
    spawned,             \* tasks handed to the spawner
    key_pc,              \* position of each key_watcher
    current_menu,        \* update_display: local current_menu
    last_active_button,  \* update_display: local last_active_button
    drawn,               \* update_display: the draw dispatched by the last tick
    led_pc,              \* position of led_task
    led_data,            \* led_task: local led_data
    backlight,           \* blink_backlight: level of the backlight pin
    \* ---- bin/buttons.rs ----
    button,              \* the Button handed to watch_button / called directly
    pin,                 \* level of the button's input pin
    w_pc,                \* position inside watch_button
    action,              \* watch_button: local `action`
    long_press_timer,    \* watch_button: has long_press_timer expired
    ret,                 \* value returned by the last call
    ret_path,            \* the return statement the last watch_button call took
    call,                \* the last direct call on the Button: <<method, argument,
                         \* Button.state when it was made>>
    \* ---- leds.rs / led_task encoder ----
    encoder,             \* which encoder ran last: "show" or "led_task"
    enc_colors,          \* the colour array handed to the encoder
    rmt_buffer,          \* LedController.buffer (reused between calls)
    sent,                \* the pulse sequence handed to the transmitter
    enc_result,          \* outcome of the last encoder call
    \* ---- polling variant: src/buttons.rs, WorkingBak main.rs ----
    BUTTON_STATES,       \* static BUTTON_STATES: the shared state of each button
    button_pin,          \* level of each button's input pin
    bt_pc,               \* position of each button_task
    ACTIVE_BUTTON,       \* static ACTIVE_BUTTON: Cell<usize>
    dt_pc,               \* position of display_task
    current_screen,      \* display_task: local current_screen
    layout,              \* display_task: local layout (ButtonLayout)
    dt_calls,            \* display_task: the lcd calls completed in its last step
    gab_ret,             \* value returned by the last get_active_button call
    wfb_pc,              \* position inside wait_for_button_press
    wfb_ret,             \* value returned by wait_for_button_press
    \* ---- WorkingBak leds.rs: led_animation_task ----
    current_colors,      \* led_animation_task: local current_colors
    anim_result,         \* outcome of the last controller.show of the task
    \* ---- bin/leds.rs: LedStrip ----
    strip_data,          \* LedStrip.data
    strip_ret,           \* value returned by the last LedStrip call
    strip_written,       \* the colours handed to adapter.write by the last call
    \* ---- bin/async_main.rs: the key pins ----
    last_edge            \* the key whose pin had the latest falling edge

uiVars    == <<UI_STATE, main_pc, spawned, key_pc, current_menu,
               last_active_button, drawn, led_pc, led_data, backlight>>
watchVars == <<button, pin, w_pc, action, long_press_timer, ret, ret_path,
               call>>
encVars   == <<encoder, enc_colors, rmt_buffer, sent, enc_result>>
callVars  == <<gab_ret, wfb_pc, wfb_ret>>
pollVars  == <<BUTTON_STATES, button_pin, bt_pc, ACTIVE_BUTTON, dt_pc,
               current_screen, layout, dt_calls, callVars>>
animVars  == <<current_colors, anim_result>>
stripVars == <<strip_data, strip_ret, strip_written>>
edgeVars  == <<last_edge>>
moreVars  == <<animVars, stripVars, edgeVars>>
vars      == <<uiVars, watchVars, encVars, pollVars, moreVars>>

None == "None"

\* Option<T>: None is the empty sequence, Some(x) the one-element sequence.
NoneOpt == <<>>
Some(x) == <<x>>

(***************************************************************************)
(* Shared UI state (bin/display.rs, bin/async_main.rs)                     *)
(***************************************************************************)
LED_COUNT == 6
Keys      == 0 .. (LED_COUNT - 1)
Menus     == {"Main", "Trip", "Settings"}

init_ui_state ==
    [current_menu |-> "Main", active_button |-> 0,
     user_name |-> "Guest", wifi_connected |-> FALSE]

\* Fault variant: the state is rebuilt on every call.
get_ui_state_reinit(opt) == Some(init_ui_state)
\* get_ui_state: UI_STATE after the call (created on first use); the
\* reference returned is to its content.
get_ui_state(opt) == IF opt = NoneOpt THEN Some(init_ui_state) ELSE opt

\* The six watcher tasks main spawns, for "key 1" .. "key 6".
KeyNumbers == 1 .. LED_COUNT
KeyTask(n) ==
    <<"watch_key", "watch_key2", "watch_key3", "watch_key4", "watch_key5",
      "watch_key6">>[n]

\* Fault variant: the task listens for edges during the recovery delay too.
key_listening_always(pc) == TRUE
\* key_watcher: the task is suspended in wait_for_falling_edge.
key_listening(pc) == pc = "wait_for_falling_edge"

\* Fault variant: key n is spawned with index n.
key_index_off_by_one(n) == n
\* The key_index main passes to the watcher of key n.
key_index(n) == n - 1

AllTasks == {"update_display", "led_task", "blink_backlight"}
                \cup { KeyTask(n) : n \in KeyNumbers }

\* A task runs only once main has reached its idle loop (cooperative
\* scheduling: main does not suspend before) and nothing has panicked.
Runs(t) == main_pc = "idle_loop" /\ t \in spawned

\* The environment presses at most this many keys within one 100 ms recovery
\* window.
MaxRecovering == 2
Recovering == { n \in KeyNumbers : key_pc[n] = "recover" }

\* key_watcher's write for key_index k.
\* Fault variant: the keys without a menu of their own go back to Main.
key_menu_resets(k, old) ==
    IF k = 0 THEN "Main"
    ELSE IF k = 1 THEN "Trip"
    ELSE IF k = 2 THEN "Settings"
    ELSE "Main"
key_menu(k, old) ==
    IF k = 0 THEN "Main"
    ELSE IF k = 1 THEN "Trip"
    ELSE IF k = 2 THEN "Settings"
    ELSE old

\* Fault variant: only the button index is written in this segment.
key_write_torn(s, k) == [s EXCEPT !.active_button = k]
\* Fault variant: the press is written into a freshly built state.
key_write_reinit(s, k) ==
    [init_ui_state EXCEPT !.active_button = k,
                          !.current_menu = key_menu(k, init_ui_state.current_menu)]
key_write(s, k) ==
    [s EXCEPT !.active_button = k,
              !.current_menu = key_menu(k, s.current_menu)]

\* Fault variant: every menu is drawn by the main-screen routine.
draw_routine_main_only(menu) == "draw_main_screen"
\* The per-menu draw routine and the zones it highlights.
draw_routine(menu) ==
    IF menu = "Main" THEN "draw_main_screen"
    ELSE IF menu = "Trip" THEN "draw_trip_screen"
    ELSE "draw_settings_screen"

\* Fault variant: the zone after the active one is highlighted.
draw_zones_shifted(state) == [j \in 0 .. 2 |-> state.active_button + 1 = j]
draw_zones(state) == [j \in 0 .. 2 |-> state.active_button = j]

RGB(r, g, b) == [r |-> r, g |-> g, b |-> b]
WHITE    == RGB(255, 255, 255)
DIM_BLUE == RGB(0, 0, 32)

\* Fault variant: the active LED is dim and the others are white.
led_colors_inverted(state) ==
    [i \in Keys |-> IF i = state.active_button THEN DIM_BLUE ELSE WHITE]
led_colors(state) ==
    [i \in Keys |-> IF i = state.active_button THEN WHITE ELSE DIM_BLUE]

----
\* main: display::init_display, then spawn update_display.
MainInitDisplay ==
    /\ main_pc = "init_display"
    /\ \E ok \in BOOLEAN :
         IF ok
         THEN /\ main_pc' = "init_rmt"
              /\ spawned' = spawned \cup {"update_display"}
         ELSE /\ main_pc' = "panicked"
              /\ UNCHANGED spawned
    /\ UNCHANGED <<UI_STATE, key_pc, current_menu, last_active_button, drawn,
                   led_pc, led_data, backlight>>
    /\ UNCHANGED <<watchVars, encVars, pollVars, moreVars>>

\* main: Rmt::new(..).unwrap(), then spawn led_task, blink_backlight and the
\* six key watchers, then the idle loop.
MainInitRmt ==
    /\ main_pc = "init_rmt"
    /\ \E ok \in BOOLEAN :
         IF ok
         THEN /\ main_pc' = "idle_loop"
              /\ spawned' = AllTasks
         ELSE /\ main_pc' = "panicked"
              /\ UNCHANGED spawned
    /\ UNCHANGED <<UI_STATE, key_pc, current_menu, last_active_button, drawn,
                   led_pc, led_data, backlight>>
    /\ UNCHANGED <<watchVars, encVars, pollVars, moreVars>>

\* key_watcher: a falling edge wakes the task; it writes UI_STATE and then
\* suspends in the 100 ms recovery delay.
KeyPress(n) ==
    /\ Runs(KeyTask(n))
    /\ Cardinality(Recovering) < MaxRecovering
    /\ key_listening(key_pc[n])
    /\ UI_STATE' = Some(key_write(get_ui_state(UI_STATE)[1], key_index(n)))
    /\ key_pc' = [key_pc EXCEPT ![n] = "recover"]
    /\ UNCHANGED <<main_pc, spawned, current_menu, last_active_button, drawn,
                   led_pc, led_data, backlight>>
    /\ UNCHANGED <<watchVars, encVars, pollVars, moreVars>>

\* The pin of key n has a falling edge: the key_watcher handles it if it is
\* suspended in wait_for_falling_edge; in its recovery delay it is not
\* listening and the edge is lost.
KeyFallingEdge(n) ==
    /\ Runs(KeyTask(n))
    /\ last_edge' = n
    /\ IF key_listening(key_pc[n])
       THEN /\ Cardinality(Recovering) < MaxRecovering
            /\ UI_STATE' = Some(key_write(get_ui_state(UI_STATE)[1], key_index(n)))
            /\ key_pc' = [key_pc EXCEPT ![n] = "recover"]
       ELSE UNCHANGED <<UI_STATE, key_pc>>
    /\ UNCHANGED <<main_pc, spawned, current_menu, last_active_button, drawn,
                   led_pc, led_data, backlight>>
    /\ UNCHANGED <<watchVars, encVars, pollVars, animVars, stripVars>>

\* key_watcher: the recovery delay elapses; the task waits for the next edge.
KeyRecover(n) ==
    /\ Runs(KeyTask(n))
    /\ key_pc[n] = "recover"
    /\ key_pc' = [key_pc EXCEPT ![n] = "wait_for_falling_edge"]
    /\ UNCHANGED <<UI_STATE, main_pc, spawned, current_menu,
                   last_active_button, drawn, led_pc, led_data, backlight>>
    /\ UNCHANGED <<watchVars, encVars, pollVars, moreVars>>

\* Fault variant: the tracking assignment is written the wrong way round.
DisplayWritesBack(s) == [s EXCEPT !.current_menu = current_menu]
\* update_display: what one tick leaves in UI_STATE (it only reads it).
DisplayUiAfter(s) == s

\* Fault variant: the tick redraws whether or not something changed.
display_changed_always(ui_state, menu, tracked) == TRUE
\* Fault variant: only the menu is compared.
display_changed_menu_only(ui_state, menu, tracked) ==
    ui_state.current_menu # menu
\* update_display: the test `ui_state.current_menu != current_menu ||
\* ui_state.active_button != last_active_button`.
display_changed(ui_state, menu, tracked) ==
    ui_state.current_menu # menu \/ ui_state.active_button # tracked

\* update_display: `let mut last_active_button = 99;`
last_active_button_init == 99

\* Fault variant: only the menu is tracked.
display_tracking_menu_only(ui_state) == <<ui_state.current_menu, 99>>
\* update_display: the values assigned to the tracking variables
\* (current_menu, last_active_button) after the draw.
display_tracking(ui_state) ==
    <<ui_state.current_menu, ui_state.active_button>>

\* update_display: one pass of the loop body.
DisplayTick ==
    /\ Runs("update_display")
    /\ LET ui_state == get_ui_state(UI_STATE)[1] IN
         /\ UI_STATE' = Some(DisplayUiAfter(ui_state))
         /\ IF display_changed(ui_state, current_menu, last_active_button)
            THEN /\ \E result \in {"Ok", "Err"} :
                      drawn' = Some([routine |-> draw_routine(ui_state.current_menu),
                                     zones   |-> draw_zones(ui_state),
                                result  |-> result])
                 /\ current_menu' = display_tracking(ui_state)[1]
                 /\ last_active_button' = display_tracking(ui_state)[2]
            ELSE /\ drawn' = NoneOpt
                 /\ UNCHANGED <<current_menu, last_active_button>>
    /\ UNCHANGED <<main_pc, spawned, key_pc, led_pc, led_data, backlight>>
    /\ UNCHANGED <<watchVars, encVars, pollVars, moreVars>>

\* led_task: TxRmtDriver::new(..).unwrap() before the loop.
LedStart ==
    /\ Runs("led_task")
    /\ led_pc = "start"
    /\ \E ok \in BOOLEAN :
         IF ok
         THEN /\ led_pc' = "loop"
              /\ UNCHANGED main_pc
         ELSE /\ led_pc' = "panicked"
              /\ main_pc' = "panicked"
    /\ UNCHANGED <<UI_STATE, spawned, key_pc, current_menu, last_active_button,
                   drawn, led_data, backlight>>
    /\ UNCHANGED <<watchVars, encVars, pollVars, moreVars>>

\* led_task: one pass of the loop body (transmit errors are only logged).
LedTick ==
    /\ Runs("led_task")
    /\ led_pc = "loop"
    /\ LET ui_state == get_ui_state(UI_STATE)[1] IN
         /\ UI_STATE' = Some(ui_state)
         /\ led_data' = led_colors(ui_state)
    /\ UNCHANGED <<main_pc, spawned, key_pc, current_menu, last_active_button,
                   drawn, led_pc, backlight>>
    /\ UNCHANGED <<watchVars, encVars, pollVars, moreVars>>

\* blink_backlight: one pass of the loop body.
BlinkTick ==
    /\ Runs("blink_backlight")
    /\ backlight' = ~backlight
    /\ UNCHANGED <<UI_STATE, main_pc, spawned, key_pc, current_menu,
                   last_active_button, drawn, led_pc, led_data>>
    /\ UNCHANGED <<watchVars, encVars, pollVars, moreVars>>

UiInit ==
    /\ UI_STATE = NoneOpt
    /\ main_pc = "init_display"
    /\ spawned = {}
    /\ key_pc = [n \in KeyNumbers |-> "wait_for_falling_edge"]
    /\ current_menu = "Main"
    /\ last_active_button = last_active_button_init
    /\ drawn = NoneOpt
    /\ led_pc = "start"
    /\ led_data = [i \in Keys |-> DIM_BLUE]
    /\ backlight = TRUE

(***************************************************************************)
(* Debounce engine (bin/buttons.rs)                                        *)
(***************************************************************************)
ButtonActions == {"Press", "Release", "LongPress", "None"}
ButtonStates  == {"Idle", "Pressed", "LongPressed"}

\* Button::new
Button_new(id) == [state |-> "Idle", last_action |-> "None", id |-> id]

\* Button::update_state: the action returned.
update_state_action(b, is_low) ==
    IF b.state = "Idle" /\ is_low THEN "Press"
    ELSE IF b.state \in {"Pressed", "LongPressed"} /\ ~is_low THEN "Release"
    ELSE "None"

\* Fault variant: a high sample releases whatever the state.
update_state_releases_idle(b, is_low) ==
    LET a == IF ~is_low THEN "Release" ELSE update_state_action(b, is_low) IN
    [b EXCEPT !.state = IF is_low /\ b.state = "Idle" THEN "Pressed"
                        ELSE IF ~is_low THEN "Idle" ELSE b.state,
              !.last_action = a]
\* Fault variant: the release arm does not write the state.
update_state_release_keeps_state(b, is_low) ==
    LET a == update_state_action(b, is_low) IN
    [b EXCEPT !.state = IF a = "Press" THEN "Pressed" ELSE b.state,
              !.last_action = a]
\* Button::update_state: the Button after the call.
update_state(b, is_low) ==
    LET a == update_state_action(b, is_low) IN
    [b EXCEPT !.state = IF a = "Press" THEN "Pressed"
                        ELSE IF a = "Release" THEN "Idle"
                        ELSE b.state,
              !.last_action = a]

\* Button::process_long_press: the action returned.
process_long_press_action(b, duration_ms) ==
    IF b.state = "Pressed" THEN "LongPress" ELSE "None"

\* Fault variant: the state guard is missing.
process_long_press_any_state(b, duration_ms) ==
    [b EXCEPT !.state = "LongPressed", !.last_action = "LongPress"]
\* Fault variant: the state assignment is missing.
process_long_press_keeps_state(b, duration_ms) ==
    IF b.state = "Pressed"
    THEN [b EXCEPT !.last_action = "LongPress"]
    ELSE b
\* Button::process_long_press: the Button after the call (on the None path
\* neither state nor last_action is written).
process_long_press(b, duration_ms) ==
    IF b.state = "Pressed"
    THEN [b EXCEPT !.state = "LongPressed", !.last_action = "LongPress"]
    ELSE b

\* Fault variant: the re-sample tests the wrong level.
still_low_inverted(p) == p = "High"
\* watch_button: the re-sample after the press debounce, `pin.is_low()`.
still_low(p) == p = "Low"

\* watch_button: the re-sample after the release debounce, `pin.is_high()`.
is_high_sample(p) == p = "High"

\* Fault variant: the timer is tested before the release.
loop_branch_timer_first(p, expired) ==
    IF expired THEN "long_press"
    ELSE IF p = "High" THEN "release_debounce"
    ELSE "yield"
\* watch_button: the branch one poll iteration takes at its top:
\* `if released {..} else if long_press_timer.is_expired() {..}`.
loop_branch(p, expired) ==
    IF p = "High" THEN "release_debounce"
    ELSE IF expired THEN "long_press"
    ELSE "yield"

InLoop == w_pc \in {"loop", "release_debounce", "yield"}

----
\* The caller invokes watch_button (again): wait_for_falling_edge.
WatchCall ==
    /\ w_pc \in {"not_called", "returned"}
    /\ w_pc' = "wait_for_falling_edge"
    /\ UNCHANGED <<button, pin, action, long_press_timer, ret, ret_path, call>>
    /\ UNCHANGED <<uiVars, encVars, pollVars, moreVars>>

\* The pin changes level (press, release or contact bounce). A change to low
\* is the falling edge that ends wait_for_falling_edge.
PinChange ==
    /\ pin' = IF pin = "High" THEN "Low" ELSE "High"
    /\ w_pc' = IF w_pc = "wait_for_falling_edge" /\ pin = "High"
               THEN "debounce" ELSE w_pc
    /\ UNCHANGED <<button, action, long_press_timer, ret, ret_path, call>>
    /\ UNCHANGED <<uiVars, encVars, pollVars, moreVars>>

\* watch_button: the 50 ms debounce has elapsed; re-sample the pin.
DebounceElapsed ==
    /\ w_pc = "debounce"
    /\ IF still_low(pin)
       THEN /\ action' = update_state_action(button, TRUE)
            /\ button' = update_state(button, TRUE)
            /\ long_press_timer' = FALSE
            /\ w_pc' = "loop"
            /\ UNCHANGED <<ret, ret_path>>
       ELSE /\ ret' = "None"
            /\ ret_path' = "false_trigger"
            /\ w_pc' = "returned"
            /\ UNCHANGED <<button, action, long_press_timer>>
    /\ UNCHANGED <<pin, call>>
    /\ UNCHANGED <<uiVars, encVars, pollVars, moreVars>>

\* The long-press timer started by the call expires.
TimerExpire ==
    /\ InLoop
    /\ ~long_press_timer
    /\ long_press_timer' = TRUE
    /\ UNCHANGED <<button, pin, w_pc, action, ret, ret_path, call>>
    /\ UNCHANGED <<uiVars, encVars, pollVars, moreVars>>

\* watch_button: the top of one poll iteration.
LoopCheck ==
    /\ w_pc = "loop"
    /\ LET branch == loop_branch(pin, long_press_timer) IN
         IF branch = "long_press"
         THEN /\ ret' = process_long_press_action(button, 0)
              /\ button' = process_long_press(button, 0)
              /\ ret_path' = "long_press"
              /\ w_pc' = "returned"
         ELSE /\ w_pc' = branch
              /\ UNCHANGED <<button, ret, ret_path>>
    /\ UNCHANGED <<pin, action, long_press_timer, call>>
    /\ UNCHANGED <<uiVars, encVars, pollVars, moreVars>>

\* watch_button: the 50 ms release debounce has elapsed; re-sample the pin.
ReleaseDebounceElapsed ==
    /\ w_pc = "release_debounce"
    /\ IF is_high_sample(pin)
       THEN /\ ret' = update_state_action(button, FALSE)
            /\ button' = update_state(button, FALSE)
            /\ ret_path' = "release"
            /\ w_pc' = "returned"
       ELSE /\ w_pc' = "yield"
            /\ UNCHANGED <<button, ret, ret_path>>
    /\ UNCHANGED <<pin, action, long_press_timer, call>>
    /\ UNCHANGED <<uiVars, encVars, pollVars, moreVars>>

\* watch_button: the 10 ms yield has elapsed.
YieldElapsed ==
    /\ w_pc = "yield"
    /\ w_pc' = "loop"
    /\ UNCHANGED <<button, pin, action, long_press_timer, ret, ret_path, call>>
    /\ UNCHANGED <<uiVars, encVars, pollVars, moreVars>>

WatchInit ==
    /\ \E id \in Keys : button = Button_new(id)
    /\ pin \in {"High", "Low"}
    /\ w_pc = "not_called"
    /\ action = "None"
    /\ long_press_timer = FALSE
    /\ ret = "None"
    /\ ret_path = None
    /\ call = NoneOpt

----
\* Direct calls of the Button's methods, in any order, with any argument.
LongPressDurations == {0, 2000}

CallUpdateState ==
    /\ \E is_low \in BOOLEAN :
         /\ ret' = update_state_action(button, is_low)
         /\ button' = update_state(button, is_low)
         /\ call' = Some(<<"update_state", is_low, button.state>>)
    /\ UNCHANGED <<pin, w_pc, action, long_press_timer, ret_path>>
    /\ UNCHANGED <<uiVars, encVars, pollVars, moreVars>>

CallProcessLongPress ==
    /\ \E duration_ms \in LongPressDurations :
         /\ ret' = process_long_press_action(button, duration_ms)
         /\ button' = process_long_press(button, duration_ms)
         /\ call' = Some(<<"process_long_press", duration_ms, button.state>>)
    /\ UNCHANGED <<pin, w_pc, action, long_press_timer, ret_path>>
    /\ UNCHANGED <<uiVars, encVars, pollVars, moreVars>>


(***************************************************************************)
(* Colour pulse encoders (leds.rs LedController::show; led_task)           *)
(***************************************************************************)
\* leds.rs: WS2812B timing constants (ns).
T0H   == 400
T0L   == 850
T1H   == 800
T1L   == 450
RESET == 50000
\* led_task: its own calibration (ns).
LT_T0H == 350
LT_T0L == 900
LT_T1H == 900
LT_T1L == 350

PulseCode(level, duration) == [level |-> level, duration |-> duration]
PulseCodeDefault == PulseCode(FALSE, 0)
PulsePair(l0, d0, l1, d1) ==
    [level0 |-> l0, duration0 |-> d0, level1 |-> l1, duration1 |-> d1]
PulsePairDefault == PulsePair(FALSE, 0, FALSE, 0)

\* (byte >> j) & 1
Pow2(j) == 2 ^ j
ShiftBit(byte, j) == (byte \div Pow2(j)) % 2

\* main.rs: RMT_BUFFER_SIZE for led_count LEDs.
RMT_BUFFER_SIZE(led_count) == led_count * 24 * 2 + 1

\* LedController::new
LedController_new(buffer, led_count) ==
    [led_count |-> led_count, buffer |-> buffer]

\* Fault variant: the low pulse is written before the high pulse.
show_bit_low_first(bit) ==
    IF bit = 1
    THEN <<PulseCode(FALSE, T1L), PulseCode(TRUE, T1H)>>
    ELSE <<PulseCode(FALSE, T0L), PulseCode(TRUE, T0H)>>

\* show: the two codes written for one bit (`self.buffer[idx] = ..; idx += 1;`
\* twice), in the order written.
show_bit(bit) ==
    IF bit = 1
    THEN <<PulseCode(TRUE, T1H), PulseCode(FALSE, T1L)>>
    ELSE <<PulseCode(TRUE, T0H), PulseCode(FALSE, T0L)>>

\* Fault variant: the bits are sent least-significant first.
RECURSIVE show_byte_lsb_first(_, _)
show_byte_lsb_first(byte, j) ==
    IF j > 7 THEN <<>>
    ELSE show_bit(ShiftBit(byte, j)) \o show_byte_lsb_first(byte, j + 1)

\* show: `for j in (0..8).rev()`, from bit j downwards.
RECURSIVE show_byte_from(_, _)
show_byte_from(byte, j) ==
    IF j < 0 THEN <<>>
    ELSE show_bit(ShiftBit(byte, j)) \o show_byte_from(byte, j - 1)

show_byte_reversed(byte) == show_byte_lsb_first(byte, 0)
show_byte(byte) == show_byte_from(byte, 7)

\* Fault variant: the channels are sent red, green, blue.
show_bytes_rgb(color) == <<color.r, color.g, color.b>>
\* show: `let bytes = [color.g, color.r, color.b];`
show_bytes(color) == <<color.g, color.r, color.b>>

\* show: `for &byte in &bytes`
show_color(color) ==
    LET bytes == show_bytes(color) IN
    show_byte(bytes[1]) \o show_byte(bytes[2]) \o show_byte(bytes[3])

\* show: `for i in 0..led_count`, from LED i (0-based) on.
RECURSIVE show_leds(_, _, _)
show_leds(colors, i, led_count) ==
    IF i >= led_count THEN <<>>
    ELSE show_color(colors[i + 1]) \o show_leds(colors, i + 1, led_count)

Min(a, b) == IF a < b THEN a ELSE b

\* LedController::show up to the transmit call: the codes are written to
\* buffer[0], buffer[1], .. in order; a write past the slice panics.
show_encode(ctl, colors) ==
    LET led_count == Min(Len(colors), ctl.led_count)
        codes == Append(show_leds(colors, 0, led_count), PulseCode(FALSE, RESET))
        fits == Len(codes) <= Len(ctl.buffer)
    IN [buffer |-> [x \in 1 .. Len(ctl.buffer) |->
                       IF x <= Len(codes) THEN codes[x] ELSE ctl.buffer[x]],
        idx |-> Min(Len(codes), Len(ctl.buffer)),
        panicked |-> ~fits]

\* smart_leds gamma lookup (GAMMA8), used by led_task on every channel byte.
GAMMA8 == <<
    0, 0, 0, 0, 0, 0, 0, 0, 0, 0, 0, 0, 0, 0, 0, 0,
    0, 0, 0, 0, 0, 0, 0, 0, 0, 0, 0, 0, 1, 1, 1, 1,
    1, 1, 1, 1, 1, 1, 1, 1, 1, 2, 2, 2, 2, 2, 2, 2,
    2, 3, 3, 3, 3, 3, 3, 3, 4, 4, 4, 4, 4, 5, 5, 5,
    5, 6, 6, 6, 6, 7, 7, 7, 7, 8, 8, 8, 9, 9, 9, 10,
    10, 10, 11, 11, 11, 12, 12, 13, 13, 13, 14, 14, 15, 15, 16, 16,
    17, 17, 18, 18, 19, 19, 20, 20, 21, 21, 22, 22, 23, 24, 24, 25,
    25, 26, 27, 27, 28, 29, 29, 30, 31, 32, 32, 33, 34, 35, 35, 36,
    37, 38, 39, 39, 40, 41, 42, 43, 44, 45, 46, 47, 48, 49, 50, 50,
    51, 52, 54, 55, 56, 57, 58, 59, 60, 61, 62, 63, 64, 66, 67, 68,
    69, 70, 72, 73, 74, 75, 77, 78, 79, 81, 82, 83, 85, 86, 87, 89,
    90, 92, 93, 95, 96, 98, 99, 101, 102, 104, 105, 107, 109, 110, 112, 114,
    115, 117, 119, 120, 122, 124, 126, 127, 129, 131, 133, 135, 137, 138, 140, 142,
    144, 146, 148, 150, 152, 154, 156, 158, 160, 162, 164, 167, 169, 171, 173, 175,
    177, 180, 182, 184, 186, 189, 191, 193, 196, 198, 200, 203, 205, 208, 210, 213,
    215, 218, 220, 223, 225, 228, 231, 233, 236, 239, 241, 244, 247, 249, 252, 255 >>
gamma(byte) == GAMMA8[byte + 1]

\* led_task: `let bytes = [gamma(pixel.g), gamma(pixel.r), gamma(pixel.b)];`
led_task_bytes(pixel) == <<gamma(pixel.g), gamma(pixel.r), gamma(pixel.b)>>

\* led_task: the PulsePair of one bit.
led_task_pair(bit) ==
    IF bit = 1
    THEN PulsePair(TRUE, LT_T1H, FALSE, LT_T1L)
    ELSE PulsePair(TRUE, LT_T0H, FALSE, LT_T0L)

\* Fault variant: the shift is by k.
led_task_bit_lsb(byte, k) == ShiftBit(byte, k)
\* led_task: `let bit = (byte >> (7 - k)) & 1; let idx = i * 24 + j * 8 + k;`
led_task_bit(byte, k) == ShiftBit(byte, 7 - k)
led_task_idx(i, j, k) == i * 24 + j * 8 + k

\* led_task: the writes `buffer[idx] = ..` of the three nested loops.
led_task_writes(data) ==
    { [idx |-> led_task_idx(i, j, k),
       pair |-> led_task_pair(led_task_bit(led_task_bytes(data[i + 1])[j + 1], k))] :
        i \in 0 .. (Len(data) - 1), j \in 0 .. 2, k \in 0 .. 7 }

\* led_task: the buffer handed to start_blocking for led_data (a sequence);
\* every index is written at most once.
led_task_encode(data) ==
    LET writes == led_task_writes(data) IN
    [x \in 1 .. 24 * Len(data) |->
        IF \E w \in writes : w.idx = x - 1
        THEN (CHOOSE w \in writes : w.idx = x - 1).pair
        ELSE PulsePairDefault]

\* The colour arrays the encoder specification hands to the encoders.
EncLedCount == 2
ColorSamples == {DIM_BLUE, RGB(1, 128, 170)}
RECURSIVE ColorArrays(_)
ColorArrays(n) ==
    IF n = 0 THEN {<<>>}
    ELSE LET shorter == ColorArrays(n - 1) IN
         shorter \cup { Append(a, c) : a \in {x \in shorter : Len(x) = n - 1},
                                       c \in ColorSamples }

----
\* Fault variant: the whole buffer is handed to the transmitter.
show_transmitted_whole(st) == st.buffer
\* show: `self.channel.transmit(&self.buffer[0..idx])`
show_transmitted(st) == SubSeq(st.buffer, 1, st.idx)

\* Fault variant: the transmit result is unwrapped.
transmit_outcome_unwrap(ok) == IF ok THEN "Ok" ELSE "panicked"
\* The loop's handling of the transmit result: `if let Err(e) = ...` logs the
\* error and falls through to the timer.
transmit_outcome(ok) == IF ok THEN "Ok" ELSE "Err"

\* LedController::show(colors) on the controller main builds over rmt_buffer,
\* with the outcome of channel.transmit.
ShowColors(colors) ==
    LET st == show_encode(LedController_new(rmt_buffer, EncLedCount), colors) IN
      /\ encoder' = "show"
      /\ enc_colors' = colors
      /\ rmt_buffer' = st.buffer
      /\ IF st.panicked
         THEN /\ enc_result' = "panicked"
              /\ UNCHANGED sent
         ELSE /\ sent' = show_transmitted(st)
              /\ \E ok \in BOOLEAN : enc_result' = transmit_outcome(ok)

Show ==
    /\ enc_result # "panicked"
    /\ \E colors \in ColorArrays(EncLedCount + 1) : ShowColors(colors)
    /\ UNCHANGED <<uiVars, watchVars, pollVars, moreVars>>

\* led_task: encode led_data and hand the buffer to start_blocking.
LedTaskColors(colors) ==
    /\ encoder' = "led_task"
    /\ enc_colors' = colors
    /\ sent' = led_task_encode(colors)
    /\ \E ok \in BOOLEAN : enc_result' = transmit_outcome(ok)
    /\ UNCHANGED rmt_buffer

LedTaskEncode ==
    /\ enc_result # "panicked"
    /\ \E colors \in ColorArrays(EncLedCount) :
         /\ Len(colors) = EncLedCount
         /\ LedTaskColors(colors)
    /\ UNCHANGED <<uiVars, watchVars, pollVars, moreVars>>

\* One channel byte at a time: the first LED carries the byte in one channel,
\* the other LEDs are dim blue.
Bytes == 0 .. 255
Channels == {"r", "g", "b"}
ChannelColor(byte, ch) ==
    RGB(IF ch = "r" THEN byte ELSE 0, IF ch = "g" THEN byte ELSE 0,
        IF ch = "b" THEN byte ELSE 0)
ChannelArray(byte, ch) ==
    [x \in 1 .. EncLedCount |->
        IF x = 1 THEN ChannelColor(byte, ch) ELSE DIM_BLUE]

\* The first show / led_task encoding of the array chosen at the start.
ShowChannel ==
    /\ encoder = None
    /\ ShowColors(enc_colors)
    /\ UNCHANGED <<uiVars, watchVars, pollVars, moreVars>>

LedTaskChannel ==
    /\ encoder = None
    /\ LedTaskColors(enc_colors)
    /\ UNCHANGED <<uiVars, watchVars, pollVars, moreVars>>

\* LedController::new(channel, buffer, led_count): stores its arguments; it has
\* no failure path.
Construct ==
    /\ encoder = None
    /\ encoder' = "new"
    /\ enc_result' = "constructed"
    /\ rmt_buffer' = LedController_new(rmt_buffer, EncLedCount).buffer
    /\ UNCHANGED <<enc_colors, sent>>
    /\ UNCHANGED <<uiVars, watchVars, pollVars, moreVars>>

\* show on a controller that has been constructed.
ShowAfterNew ==
    /\ encoder # None
    /\ Show

\* The lengths of the slice handed to LedController::new: too short for one
\* LED, one slot short of a full frame, and main's RMT_BUFFER_SIZE.
BufferSizes ==
    {2 * 24, RMT_BUFFER_SIZE(EncLedCount) - 1, RMT_BUFFER_SIZE(EncLedCount)}

EncInit ==
    /\ encoder = None
    /\ enc_colors = <<>>
    /\ rmt_buffer = [x \in 1 .. RMT_BUFFER_SIZE(EncLedCount) |-> PulseCodeDefault]
    /\ sent = <<>>
    /\ enc_result = None

(***************************************************************************)
(* Polling variant (src/buttons.rs, WorkingBak main.rs): button_task x 6,   *)
(* the main loop and display_task                                          *)
(***************************************************************************)
PollStates == {"Idle", "Pressed", "Released"}
Screens == {"Startup", "Main", "Trip", "Settings"}

\* The environment operates at most this many buttons at a time: a button is
\* operated from the moment its pin goes low until its task has returned its
\* shared state to Idle.
MaxOperated == 1
Operated ==
    { i \in Keys : button_pin[i] = "Low" \/ BUTTON_STATES[i] # "Idle" }

\* The firmware runs until a panic halts it.
Halted == dt_pc = "panicked"

\* A button's pin changes level, with at most max buttons operated.
PinChangeBounded(i, max) ==
    /\ ~Halted
    /\ button_pin[i] = "High" => (i \in Operated \/ Cardinality(Operated) < max)
    /\ button_pin' = [button_pin EXCEPT ![i] = IF @ = "High" THEN "Low" ELSE "High"]
    /\ UNCHANGED <<BUTTON_STATES, bt_pc, ACTIVE_BUTTON, dt_pc, current_screen,
                   layout, dt_calls>>
    /\ UNCHANGED <<uiVars, watchVars, encVars, callVars, moreVars>>

PollPinChange(i) == PinChangeBounded(i, MaxOperated)

\* Fault variant: the task does not stay in the release delay.
ButtonTaskPoll_no_delay(i) ==
    /\ ~Halted
    /\ bt_pc[i] = "poll"
    /\ BUTTON_STATES' =
          [BUTTON_STATES EXCEPT ![i] =
              IF button_pin[i] = "Low" THEN "Pressed"
              ELSE IF @ = "Pressed" THEN "Released" ELSE "Idle"]
    /\ UNCHANGED <<bt_pc, button_pin, ACTIVE_BUTTON, dt_pc, current_screen,
                   layout, dt_calls>>
    /\ UNCHANGED <<uiVars, watchVars, encVars, callVars, moreVars>>

\* button_task: one poll of the pin, up to the next await.
ButtonTaskPoll(i) ==
    /\ ~Halted
    /\ bt_pc[i] = "poll"
    /\ IF button_pin[i] = "Low"
       THEN /\ BUTTON_STATES' = [BUTTON_STATES EXCEPT ![i] = "Pressed"]
            /\ UNCHANGED bt_pc
       ELSE IF BUTTON_STATES[i] = "Pressed"
       THEN /\ BUTTON_STATES' = [BUTTON_STATES EXCEPT ![i] = "Released"]
            /\ bt_pc' = [bt_pc EXCEPT ![i] = "release_delay"]
       ELSE UNCHANGED <<BUTTON_STATES, bt_pc>>
    /\ UNCHANGED <<button_pin, ACTIVE_BUTTON, dt_pc, current_screen, layout,
                   dt_calls>>
    /\ UNCHANGED <<uiVars, watchVars, encVars, callVars, moreVars>>

\* button_task: the 50 ms after a release have passed; the state is reset to
\* Idle and the task sleeps its 20 ms before the next poll.
ButtonTaskReset(i) ==
    /\ ~Halted
    /\ bt_pc[i] = "release_delay"
    /\ BUTTON_STATES' = [BUTTON_STATES EXCEPT ![i] = "Idle"]
    /\ bt_pc' = [bt_pc EXCEPT ![i] = "poll"]
    /\ UNCHANGED <<button_pin, ACTIVE_BUTTON, dt_pc, current_screen, layout,
                   dt_calls>>
    /\ UNCHANGED <<uiVars, watchVars, encVars, callVars, moreVars>>

\* Fault variant: the scans have no break, the last hit is the result.
first_pressed_last(states) ==
    LET hits == { i \in Keys : states[i] = "Pressed" } IN
    IF hits = {} THEN NoneOpt
    ELSE Some(CHOOSE i \in hits : \A j \in hits : j <= i)
\* The lowest index whose shared state is Pressed (the first hit of the
\* `for (i, state) in BUTTON_STATES.iter().enumerate()` scans), as an Option.
first_pressed(states) ==
    LET hits == { i \in Keys : states[i] = "Pressed" } IN
    IF hits = {} THEN NoneOpt
    ELSE Some(CHOOSE i \in hits : \A j \in hits : i <= j)

\* main: one pass of the main loop.
MainLoopPass ==
    /\ ~Halted
    /\ LET hit == first_pressed(BUTTON_STATES) IN
         ACTIVE_BUTTON' = IF hit = NoneOpt THEN ACTIVE_BUTTON ELSE hit[1]
    /\ UNCHANGED <<BUTTON_STATES, button_pin, bt_pc, dt_pc, current_screen,
                   layout, dt_calls>>
    /\ UNCHANGED <<uiVars, watchVars, encVars, callVars, moreVars>>

\* display_task: the labels the redraw arm of a screen puts into the layout
\* (the Startup arm leaves them).
screen_labels(screen, old) ==
    IF screen = "Main" THEN "MAIN_BUTTONS"
    ELSE IF screen = "Trip" THEN "TRIP_BUTTONS"
    ELSE IF screen = "Settings" THEN "SETTINGS_BUTTONS"
    ELSE old

\* display_task: the lcd calls of the redraw arm of a screen.
redraw_calls(screen) ==
    IF screen = "Startup" THEN <<"draw_startup">>
    ELSE IF screen = "Main" THEN <<"draw_main_screen">>
    ELSE <<"draw_title", "draw_buttons">>

\* Fault variant: the menu buttons work on every screen.
screen_transition_any_screen(screen, i) ==
    IF screen = "Startup" THEN screen
    ELSE IF i = 0 THEN "Main"
    ELSE IF i = 1 THEN "Trip"
    ELSE IF i = 2 THEN "Settings"
    ELSE screen

\* display_task: `match (current_screen, i)` for a Pressed button i: the next
\* screen and the lcd calls of the arm.
screen_transition(screen, i) ==
    IF screen = "Main" /\ i = 1 THEN "Trip"
    ELSE IF screen = "Main" /\ i = 2 THEN "Settings"
    ELSE IF screen = "Trip" /\ i = 0 THEN "Main"
    ELSE IF screen = "Settings" /\ i = 0 THEN "Main"
    ELSE screen

transition_calls(screen, i) ==
    IF screen = "Main" /\ i = 1
    THEN <<"clear", "draw_title", "draw_box", "draw_text", "draw_buttons">>
    ELSE IF screen = "Main" /\ i = 2
    THEN <<"clear", "draw_title", "draw_box", "draw_text", "draw_text",
           "draw_text", "draw_buttons">>
    ELSE IF screen \in {"Trip", "Settings"} /\ i = 0
    THEN <<"draw_main_screen">>
    ELSE <<>>

\* `.unwrap()` on the result of an lcd call: a failure panics.
unwrap(ok) == IF ok THEN "loop" ELSE "panicked"

\* display_task: lcd.draw_startup().unwrap(), then the 2 s wait.
DisplayTaskStart ==
    /\ dt_pc = "start"
    /\ \E ok \in BOOLEAN :
         IF unwrap(ok) = "loop"
         THEN /\ dt_pc' = "startup_wait"
              /\ dt_calls' = <<"draw_startup">>
         ELSE /\ dt_pc' = "panicked"
              /\ UNCHANGED dt_calls
    /\ UNCHANGED <<BUTTON_STATES, button_pin, bt_pc, ACTIVE_BUTTON,
                   current_screen, layout>>
    /\ UNCHANGED <<uiVars, watchVars, encVars, callVars, moreVars>>

\* display_task: after the wait, switch to the main screen and draw it.
DisplayTaskMain ==
    /\ dt_pc = "startup_wait"
    /\ \E ok \in BOOLEAN :
         IF unwrap(ok) = "loop"
         THEN /\ dt_pc' = "loop"
              /\ current_screen' = "Main"
              /\ layout' = [labels |-> "MAIN_BUTTONS", active_index |-> 0]
              /\ dt_calls' = <<"draw_main_screen">>
         ELSE /\ dt_pc' = "panicked"
              /\ UNCHANGED <<current_screen, layout, dt_calls>>
    /\ UNCHANGED <<BUTTON_STATES, button_pin, bt_pc, ACTIVE_BUTTON>>
    /\ UNCHANGED <<uiVars, watchVars, encVars, callVars, moreVars>>

\* display_task: one pass of the loop body. A failed lcd call panics; the
\* panic halts the firmware, the task's locals are not observed afterwards.
DisplayTaskTick ==
    /\ dt_pc = "loop"
    /\ LET current_button == ACTIVE_BUTTON
           redraw == current_button # layout.active_index
           layout1 == IF redraw
                      THEN [labels |-> screen_labels(current_screen, layout.labels),
                            active_index |-> current_button]
                      ELSE layout
           calls1 == IF redraw THEN redraw_calls(current_screen) ELSE <<>>
           hit == first_pressed(BUTTON_STATES)
           screen2 == IF hit = NoneOpt THEN current_screen
                      ELSE screen_transition(current_screen, hit[1])
           calls2 == IF hit = NoneOpt THEN <<>>
                     ELSE transition_calls(current_screen, hit[1])
           layout2 == IF screen2 # current_screen
                      THEN [labels |-> screen_labels(screen2, layout1.labels),
                            active_index |-> 0]
                      ELSE layout1
           calls == calls1 \o calls2
       IN \E ok \in (IF calls = <<>> THEN {TRUE} ELSE BOOLEAN) :
            IF unwrap(ok) = "loop"
            THEN /\ current_screen' = screen2
                 /\ layout' = layout2
                 /\ dt_calls' = calls
                 /\ UNCHANGED dt_pc
            ELSE /\ dt_pc' = "panicked"
                 /\ UNCHANGED <<current_screen, layout, dt_calls>>
    /\ UNCHANGED <<BUTTON_STATES, button_pin, bt_pc, ACTIVE_BUTTON>>
    /\ UNCHANGED <<uiVars, watchVars, encVars, callVars, moreVars>>

\* The polling firmware once main has spawned its tasks.
\* The environment holds at most this many buttons at a time while the
\* callers of get_active_button and wait_for_button_press run.
MaxHeld == 2
HeldPinChange(i) == PinChangeBounded(i, MaxHeld)

\* Fault variant: the scan has no early return, the last hit is the result.
get_active_button_last(states) ==
    LET hits == { i \in Keys : states[i] = "Pressed" } IN
    IF hits = {} THEN NoneOpt
    ELSE Some(CHOOSE i \in hits : \A j \in hits : j <= i)

\* get_active_button: the scan of BUTTON_STATES from index idx on.
RECURSIVE get_active_button_from(_, _)
get_active_button_from(states, idx) ==
    IF idx >= LED_COUNT THEN NoneOpt
    ELSE IF states[idx] = "Pressed" THEN Some(idx)
    ELSE get_active_button_from(states, idx + 1)

get_active_button(states) == get_active_button_from(states, 0)

\* A task calls get_active_button.
GetActiveButton ==
    /\ gab_ret' = Some(get_active_button(BUTTON_STATES))
    /\ UNCHANGED <<wfb_pc, wfb_ret>>
    /\ UNCHANGED <<BUTTON_STATES, button_pin, bt_pc, ACTIVE_BUTTON, dt_pc,
                   current_screen, layout, dt_calls>>
    /\ UNCHANGED <<uiVars, watchVars, encVars, moreVars>>

\* wait_for_button_press: one pass of its loop, from the call or from the
\* 20 ms timer; it returns the index as soon as get_active_button has one.
WaitForButtonPress ==
    /\ LET hit == get_active_button(BUTTON_STATES) IN
         IF hit # NoneOpt
         THEN /\ wfb_pc' = "returned"
              /\ wfb_ret' = hit
         ELSE /\ wfb_pc' = "timer"
              /\ wfb_ret' = NoneOpt
    /\ UNCHANGED gab_ret
    /\ UNCHANGED <<BUTTON_STATES, button_pin, bt_pc, ACTIVE_BUTTON, dt_pc,
                   current_screen, layout, dt_calls>>
    /\ UNCHANGED <<uiVars, watchVars, encVars, moreVars>>

\* led_animation_task: base_colors, by the names of the colour constants.
base_colors ==
    [i \in Keys |->
        IF i = 0 THEN "DIM_RED" ELSE IF i = 1 THEN "DIM_GREEN"
        ELSE IF i = 2 THEN "DIM_BLUE" ELSE IF i = 3 THEN "DIM_YELLOW"
        ELSE IF i = 4 THEN "DIM_CYAN" ELSE "DIM_MAGENTA"]

\* Fault variant: a released button stays lit until it is Idle again.
button_color_released_white(state, i) ==
    IF state = "Idle" THEN base_colors[i] ELSE "WHITE"
\* led_animation_task: the colour of LED i for the state of button i.
button_color(state, i) ==
    IF state = "Idle" THEN base_colors[i]
    ELSE IF state = "Pressed" THEN "WHITE"
    ELSE base_colors[i]

\* led_animation_task: one pass of the loop: the colours are rebuilt from
\* BUTTON_STATES and handed to controller.show, whose error is only logged.
LedAnimationTick ==
    /\ current_colors' = [i \in Keys |-> button_color(BUTTON_STATES[i], i)]
    /\ \E ok \in BOOLEAN : anim_result' = transmit_outcome(ok)
    /\ UNCHANGED <<uiVars, watchVars, encVars, pollVars, stripVars, edgeVars>>

AnimInit ==
    /\ current_colors = base_colors
    /\ anim_result = None

PollInit ==
    /\ gab_ret = NoneOpt
    /\ wfb_pc = "not_called"
    /\ wfb_ret = NoneOpt
    /\ BUTTON_STATES = [i \in Keys |-> "Idle"]
    /\ button_pin = [i \in Keys |-> "High"]
    /\ bt_pc = [i \in Keys |-> "poll"]
    /\ ACTIVE_BUTTON = 0
    /\ dt_pc = "start"
    /\ current_screen = "Startup"
    /\ layout = [labels |-> "MAIN_BUTTONS", active_index |-> 0]
    /\ dt_calls = <<>>

(***************************************************************************)
(* LedStrip (bin/leds.rs)                                                  *)
(***************************************************************************)
NUM_LEDS == 6
StripLeds == 0 .. (NUM_LEDS - 1)

\* The indices handed to set_led: every valid one and up to this one.
MaxStripIndex == 7
StripColors == {WHITE, DIM_BLUE}

\* LedStrip::new: data = [(0, 0, 0).into(); NUM_LEDS]
LedStrip_new == [i \in StripLeds |-> RGB(0, 0, 0)]

\* LedStrip::update: the value returned for the outcome of adapter.write.
strip_update(ok) == IF ok THEN "Ok" ELSE "Failed to write to LED strip"

\* Fault variant: the bound test is `index > NUM_LEDS`.
set_led_checks_above(data, index, color, ok) ==
    IF index > NUM_LEDS
    THEN [ret |-> "LED index out of bounds", data |-> data, written |-> NoneOpt]
    ELSE LET stored == [i \in StripLeds |-> IF i = index THEN color ELSE data[i]] IN
         [ret |-> strip_update(ok), data |-> stored, written |-> Some(stored)]
\* LedStrip::set_led: the value returned, the stored colours after the call
\* and the colours handed to update's adapter.write (None: no write).
set_led(data, index, color, ok) ==
    IF index >= NUM_LEDS
    THEN [ret |-> "LED index out of bounds", data |-> data, written |-> NoneOpt]
    ELSE LET stored == [i \in StripLeds |-> IF i = index THEN color ELSE data[i]] IN
         [ret |-> strip_update(ok), data |-> stored, written |-> Some(stored)]

\* A caller calls set_led.
StripSetLed ==
    /\ \E index \in 0 .. MaxStripIndex, color \in StripColors, ok \in BOOLEAN :
         LET r == set_led(strip_data, index, color, ok) IN
           /\ strip_data' = r.data
           /\ strip_ret' = <<"set_led", index, color, r.ret>>
           /\ strip_written' = r.written
    /\ UNCHANGED <<uiVars, watchVars, encVars, pollVars, animVars, edgeVars>>

StripInit ==
    /\ strip_data = LedStrip_new
    /\ strip_ret = NoneOpt
    /\ strip_written = NoneOpt

\* No key pin has had an edge yet.
EdgeInit == last_edge = 0

MoreInit == AnimInit /\ StripInit /\ EdgeInit

(***************************************************************************)
(* Specifications                                                          *)
(***************************************************************************)
\* The tasks of bin/async_main.rs around the shared UI state.
Init == UiInit /\ PollInit /\ MoreInit /\ WatchInit /\ button.id = 0 /\ pin = "High" /\ EncInit

Next ==
    \/ MainInitDisplay
    \/ MainInitRmt
    \/ \E n \in KeyNumbers : KeyPress(n)
    \/ \E n \in KeyNumbers : KeyRecover(n)
    \/ DisplayTick
    \/ LedStart
    \/ LedTick
    \/ BlinkTick

Spec == Init /\ [][Next]_vars

\* The key watchers with the falling edges of their pins, and the display.
NextKeys ==
    \/ MainInitDisplay
    \/ MainInitRmt
    \/ \E n \in KeyNumbers : KeyFallingEdge(n)
    \/ \E n \in KeyNumbers : KeyRecover(n)
    \/ DisplayTick

SpecKeys == Init /\ [][NextKeys]_vars

\* One Button driven by successive watch_button calls.
InitWatch == UiInit /\ PollInit /\ MoreInit /\ WatchInit /\ EncInit

NextWatch ==
    \/ WatchCall
    \/ PinChange
    \/ DebounceElapsed
    \/ TimerExpire
    \/ LoopCheck
    \/ ReleaseDebounceElapsed
    \/ YieldElapsed

SpecWatch == InitWatch /\ [][NextWatch]_vars

\* One Button whose methods are called directly.
NextButton ==
    \/ CallUpdateState
    \/ CallProcessLongPress

SpecButton == InitWatch /\ [][NextButton]_vars

\* The two encoders applied to bounded colour arrays.
InitEncode == UiInit /\ PollInit /\ MoreInit /\ WatchInit /\ button.id = 0 /\ pin = "High" /\ EncInit

NextEncode ==
    \/ Show
    \/ LedTaskEncode

SpecEncode == InitEncode /\ [][NextEncode]_vars

\* Each encoder applied once to an array carrying any one channel byte.
InitChannel ==
    /\ UiInit /\ PollInit /\ MoreInit /\ WatchInit /\ button.id = 0 /\ pin = "High"
    /\ encoder = None
    /\ enc_colors \in { ChannelArray(byte, ch) : byte \in Bytes, ch \in Channels }
    /\ rmt_buffer = [x \in 1 .. RMT_BUFFER_SIZE(EncLedCount) |-> PulseCodeDefault]
    /\ sent = <<>>
    /\ enc_result = None

NextChannel ==
    \/ ShowChannel
    \/ LedTaskChannel

SpecChannel == InitChannel /\ [][NextChannel]_vars

\* A controller constructed over a buffer of any of the sizes, then used.
InitConstruct ==
    /\ UiInit /\ PollInit /\ MoreInit /\ WatchInit /\ button.id = 0 /\ pin = "High"
    /\ encoder = None
    /\ enc_colors = <<>>
    /\ rmt_buffer \in { [x \in 1 .. n |-> PulseCodeDefault] : n \in BufferSizes }
    /\ sent = <<>>
    /\ enc_result = None

NextConstruct ==
    \/ Construct
    \/ ShowAfterNew

SpecConstruct == InitConstruct /\ [][NextConstruct]_vars

\* The polling variant: six button tasks, the main loop and display_task.
InitPoll == UiInit /\ PollInit /\ MoreInit /\ WatchInit /\ button.id = 0 /\ pin = "High" /\ EncInit

NextPoll ==
    \/ \E i \in Keys : PollPinChange(i)
    \/ \E i \in Keys : ButtonTaskPoll(i)
    \/ \E i \in Keys : ButtonTaskReset(i)
    \/ MainLoopPass
    \/ DisplayTaskStart
    \/ DisplayTaskMain
    \/ DisplayTaskTick

SpecPoll == InitPoll /\ [][NextPoll]_vars

\* The six button tasks with callers of get_active_button and
\* wait_for_button_press.
InitButtonStates ==
    UiInit /\ PollInit /\ MoreInit /\ WatchInit /\ button.id = 0 /\ pin = "High" /\ EncInit

NextButtonStates ==
    \/ \E i \in Keys : HeldPinChange(i)
    \/ \E i \in Keys : ButtonTaskPoll(i)
    \/ \E i \in Keys : ButtonTaskReset(i)
    \/ GetActiveButton
    \/ WaitForButtonPress

SpecButtonStates == InitButtonStates /\ [][NextButtonStates]_vars

\* The six button tasks and the main loop.
InitMainLoop ==
    UiInit /\ PollInit /\ MoreInit /\ WatchInit /\ button.id = 0 /\ pin = "High" /\ EncInit

NextMainLoop ==
    \/ \E i \in Keys : HeldPinChange(i)
    \/ \E i \in Keys : ButtonTaskPoll(i)
    \/ \E i \in Keys : ButtonTaskReset(i)
    \/ MainLoopPass

SpecMainLoop == InitMainLoop /\ [][NextMainLoop]_vars

\* The six button tasks and led_animation_task.
InitLedAnimation ==
    UiInit /\ PollInit /\ MoreInit /\ WatchInit /\ button.id = 0 /\ pin = "High" /\ EncInit

NextLedAnimation ==
    \/ \E i \in Keys : HeldPinChange(i)
    \/ \E i \in Keys : ButtonTaskPoll(i)
    \/ \E i \in Keys : ButtonTaskReset(i)
    \/ LedAnimationTick

SpecLedAnimation == InitLedAnimation /\ [][NextLedAnimation]_vars

\* A LedStrip driven by successive set_led calls.
InitLedStrip ==
    UiInit /\ PollInit /\ MoreInit /\ WatchInit /\ button.id = 0 /\ pin = "High" /\ EncInit

NextLedStrip == StripSetLed

SpecLedStrip == InitLedStrip /\ [][NextLedStrip]_vars

(***************************************************************************)
(* Properties                                                              *)
(***************************************************************************)

\* C1: in every reachable state, once UI_STATE exists, its active_button is a
\* valid control index: 0 <= active_button < 6.
C1_ActiveButtonValid ==
    UI_STATE # NoneOpt =>
        /\ UI_STATE[1].active_button >= 0
        /\ UI_STATE[1].active_button < LED_COUNT

\* C1 witness: the highest key has been pressed and both output tasks have
\* observed it.
C1_Witness ==
    /\ UI_STATE # NoneOpt
    /\ UI_STATE[1].active_button = LED_COUNT - 1
    /\ last_active_button = LED_COUNT - 1
    /\ led_data[LED_COUNT - 1] = WHITE

\* A step in which some key_watcher handles a falling edge.
KeyPressStep ==
    \E n \in KeyNumbers :
        key_pc[n] = "wait_for_falling_edge" /\ key_pc'[n] = "recover"

\* C2: current_menu changes only in a step in which a key_watcher handles a
\* press; display, LED and blink steps, and get_ui_state on an initialised
\* state, leave it unchanged (and never drop the state).
C2_MenuChangesOnlyOnPress ==
    [][ UI_STATE # NoneOpt =>
          /\ UI_STATE' # NoneOpt
          /\ UI_STATE'[1].current_menu # UI_STATE[1].current_menu
                => KeyPressStep ]_vars

\* C2 witness: a press has changed the menu, and the display, LED and blink
\* tasks have run since.
C2_Witness ==
    /\ UI_STATE # NoneOpt
    /\ UI_STATE[1].current_menu = "Settings"
    /\ current_menu = "Settings"
    /\ led_data[2] = WHITE
    /\ backlight = FALSE

\* C3: when the re-sample after the press debounce reads the pin high (a
\* bounce), watch_button returns None through its false-trigger return and
\* the Button (state and last_action) is unchanged.
C3_BounceSwallowed ==
    [][ (w_pc = "debounce" /\ w_pc' # "debounce" /\ pin = "High") =>
          /\ w_pc' = "returned"
          /\ ret' = "None"
          /\ ret_path' = "false_trigger"
          /\ button' = button ]_vars

\* C3 witness: a bounce on an Idle button has been swallowed.
C3_Witness ==
    /\ w_pc = "returned"
    /\ ret_path = "false_trigger"
    /\ ret = "None"
    /\ button.state = "Idle"

\* C4: the call that takes the button Idle -> Pressed (its update_state(true)
\* yielded Press) returns a Press to its caller before the Release or
\* LongPress of that press; a call returns one value, so what it returns
\* must be the Press.
C4_PressReturned ==
    (w_pc = "returned" /\ ret_path \in {"release", "long_press"}
        /\ action = "Press")
    => ret = "Press"

\* C5: a debounce-confirmed press held until the long-press timer has expired
\* (the call returns through the timer branch) yields exactly one LongPress:
\* the value returned for it is LongPress.
C5_ExactlyOneLongPress ==
    (w_pc = "returned" /\ ret_path = "long_press") => ret = "LongPress"

\* C6: the release that ends a long hold takes the button back to Idle
\* without a further press: the engine is never parked waiting for the next
\* falling edge with the pin released and the button still LongPressed.
C6_ReleaseEndsLongHold ==
    ~(w_pc = "wait_for_falling_edge" /\ pin = "High"
        /\ button.state = "LongPressed")

\* C7: in a poll iteration of the Pressed state that reads the pin high with
\* the long-press timer already expired, no LongPress is emitted at the top of
\* the iteration, and when the release debounce confirms the pin high the
\* call returns Release and the button ends in Idle.
C7_ReleaseBeforeLongPress ==
    [][ /\ (w_pc = "loop" /\ w_pc' # "loop" /\ pin = "High"
              /\ long_press_timer /\ button.state = "Pressed")
           => (w_pc' = "release_debounce" /\ button' = button /\ ret' = ret)
        /\ (w_pc = "release_debounce" /\ w_pc' # "release_debounce"
              /\ pin = "High" /\ long_press_timer /\ button.state = "Pressed")
           => (w_pc' = "returned" /\ ret' = "Release"
                 /\ button'.state = "Idle") ]_vars

\* C7 witness: a press confirmed by this call was released with the timer
\* expired, and Release was returned.
C7_Witness ==
    /\ w_pc = "returned"
    /\ ret_path = "release"
    /\ action = "Press"
    /\ long_press_timer
    /\ ret = "Release"
    /\ button.state = "Idle"

\* C8 (as claimed): once the timer has expired, every poll iteration of the
\* Pressed state that does not confirm a release returns LongPress in that
\* iteration, also one whose release debounce found the pin low again.
C8_BothChecksEveryIteration ==
    [][ (button.state = "Pressed" /\ long_press_timer
           /\ w_pc \in {"loop", "release_debounce"}
           /\ w_pc' \notin {"loop", "release_debounce"}
           /\ ~(w_pc' = "returned" /\ ret_path' = "release"))
        => (w_pc' = "returned" /\ ret' = "LongPress") ]_vars

\* C8 (amended): the timer is checked only in an iteration whose first sample
\* reads the pin low; with the timer expired such an iteration of the Pressed
\* state returns LongPress and leaves the button LongPressed. An iteration
\* whose first sample reads high goes to the release debounce without
\* consulting the timer, and if the pin is low again after it the iteration
\* emits nothing and the loop continues after the 10 ms yield.
C8_TimerCheckedWhenPinLow ==
    [][ /\ (w_pc = "loop" /\ w_pc' # "loop" /\ pin = "Low"
              /\ long_press_timer /\ button.state = "Pressed")
           => (w_pc' = "returned" /\ ret' = "LongPress"
                 /\ button'.state = "LongPressed")
        /\ (w_pc = "loop" /\ w_pc' # "loop" /\ pin = "High")
           => (w_pc' = "release_debounce" /\ button' = button /\ ret' = ret)
        /\ (w_pc = "release_debounce" /\ w_pc' # "release_debounce"
              /\ pin = "Low")
           => (w_pc' = "yield" /\ button' = button /\ ret' = ret) ]_vars

\* C8 witness: a press confirmed by this call has returned LongPress through
\* the timer branch.
C8_Witness ==
    /\ w_pc = "returned"
    /\ ret_path = "long_press"
    /\ action = "Press"
    /\ ret = "LongPress"
    /\ button.state = "LongPressed"

\* C9: over direct calls of update_state and process_long_press, LongPressed
\* is entered only from Pressed, and Release is returned only by a call made
\* in state Pressed or LongPressed.
C9_TransitionsOnlyFromPressed ==
    [][ /\ (button'.state = "LongPressed" /\ button.state # "LongPressed")
           => button.state = "Pressed"
        /\ (call' # call /\ ret' = "Release")
           => button.state \in {"Pressed", "LongPressed"} ]_vars

\* C9 witness: a Release has been returned by a call made on a LongPressed
\* button.
C9_Witness ==
    /\ call # NoneOpt
    /\ call[1][3] = "LongPressed"
    /\ ret = "Release"
    /\ button.state = "Idle"

\* The reference bit splitting: bit k (0 = first sent) of a byte, MSB first.
RefBit(byte, k) == IF (byte % Pow2(8 - k)) >= Pow2(7 - k) THEN 1 ELSE 0

\* The channel bytes of a colour in transmission order: green, red, blue.
RefGRB(color) == <<color.g, color.r, color.b>>

\* The bit at frame position p (0-based): -1 when the pulses are no bit.
ShowFrameBit(frame, p) ==
    IF 2 * p + 2 > Len(frame) THEN -1
    ELSE IF frame[2 * p + 1] = PulseCode(TRUE, T1H)
            /\ frame[2 * p + 2] = PulseCode(FALSE, T1L) THEN 1
    ELSE IF frame[2 * p + 1] = PulseCode(TRUE, T0H)
            /\ frame[2 * p + 2] = PulseCode(FALSE, T0L) THEN 0
    ELSE -1

LedTaskFrameBit(frame, p) ==
    IF p + 1 > Len(frame) THEN -1
    ELSE IF frame[p + 1] = PulsePair(TRUE, LT_T1H, FALSE, LT_T1L) THEN 1
    ELSE IF frame[p + 1] = PulsePair(TRUE, LT_T0H, FALSE, LT_T0L) THEN 0
    ELSE -1

\* C10: for LED i the frame holds, at bit positions 24*i .. 24*i+23, the 8
\* bits of green, then of red, then of blue, each MSB first (for led_task: of
\* the gamma-corrected channel bytes).
C10_BitOrder ==
    /\ encoder = "show" =>
         \A i \in 0 .. (Min(Len(enc_colors), EncLedCount) - 1),
            c \in 0 .. 2, k \in 0 .. 7 :
              ShowFrameBit(sent, 24 * i + 8 * c + k)
                 = RefBit(RefGRB(enc_colors[i + 1])[c + 1], k)
    /\ encoder = "led_task" =>
         \A i \in 0 .. (Len(enc_colors) - 1), c \in 0 .. 2, k \in 0 .. 7 :
              LedTaskFrameBit(sent, 24 * i + 8 * c + k)
                 = RefBit(gamma(RefGRB(enc_colors[i + 1])[c + 1]), k)

\* C10 witness: show has encoded two LEDs whose channels all differ.
C10_Witness ==
    /\ encoder = "show"
    /\ enc_colors = <<DIM_BLUE, RGB(1, 128, 170)>>
    /\ Len(sent) = RMT_BUFFER_SIZE(2)

\* The frame slots of bit k (0 = first sent) of channel position c (0 = first
\* sent) of the first LED.
ShowHighSlot(c, k) == 2 * (8 * c + k) + 1
ShowLowSlot(c, k) == 2 * (8 * c + k) + 2
LedTaskSlot(c, k) == 8 * c + k + 1

\* C11: every channel byte of the first LED takes exactly 8 (high, low) pulse
\* pairs of the frame (24 per LED), and the pair of each bit is (high T1H,
\* low T1L) for a 1 and (high T0H, low T0L) for a 0, the high pulse first,
\* with each encoder's own timing table.
C11_EightPairsPerByte ==
    /\ (encoder = "show" /\ enc_result # "panicked") =>
         /\ Len(sent) = 2 * 8 * 3 * Len(enc_colors) + 1
         /\ \A c \in 0 .. 2, k \in 0 .. 7 :
              LET bit == RefBit(RefGRB(enc_colors[1])[c + 1], k) IN
                /\ sent[ShowHighSlot(c, k)].level = TRUE
                /\ sent[ShowHighSlot(c, k)].duration = IF bit = 1 THEN T1H ELSE T0H
                /\ sent[ShowLowSlot(c, k)].level = FALSE
                /\ sent[ShowLowSlot(c, k)].duration = IF bit = 1 THEN T1L ELSE T0L
    /\ encoder = "led_task" =>
         /\ Len(sent) = 8 * 3 * Len(enc_colors)
         /\ \A c \in 0 .. 2, k \in 0 .. 7 :
              LET bit == RefBit(gamma(RefGRB(enc_colors[1])[c + 1]), k)
                  pair == sent[LedTaskSlot(c, k)] IN
                /\ pair.level0 = TRUE
                /\ pair.duration0 = (IF bit = 1 THEN LT_T1H ELSE LT_T0H)
                /\ pair.level1 = FALSE
                /\ pair.duration1 = (IF bit = 1 THEN LT_T1L ELSE LT_T0L)

\* C11 witness: show has encoded the green byte 10101010.
C11_Witness ==
    /\ encoder = "show"
    /\ enc_colors[1] = RGB(0, 170, 0)
    /\ sent[1] = PulseCode(TRUE, T1H)
    /\ sent[4] = PulseCode(FALSE, T0L)

\* C12: every transmitted frame for N LEDs is 24*N bit pulse-pairs followed by
\* one reset pulse, low for at least 50 us (50000 ns), as its last element.
C12_FrameEndsWithReset ==
    /\ (encoder = "show" /\ enc_result # "panicked") =>
         LET n == Min(Len(enc_colors), EncLedCount) IN
           /\ Len(sent) = 2 * 24 * n + 1
           /\ sent[Len(sent)].level = FALSE
           /\ sent[Len(sent)].duration >= 50 * 1000
    /\ encoder = "led_task" =>
         /\ Len(sent) = 24 * Len(enc_colors) + 1
         /\ sent[Len(sent)].level0 = FALSE
         /\ sent[Len(sent)].level1 = FALSE
         /\ sent[Len(sent)].duration0 + sent[Len(sent)].duration1 >= 50 * 1000

\* The frame show hands over when it runs on a buffer never used before.
FreshShowFrame(colors) ==
    show_transmitted(
        show_encode(
            LedController_new(
                [x \in 1 .. RMT_BUFFER_SIZE(EncLedCount) |-> PulseCodeDefault],
                EncLedCount),
            colors))

\* C13: the transmitted pulse sequence depends only on the colour array: after
\* any earlier frames, whatever they left in the reused buffer, show sends what
\* it sends for that array on a fresh buffer, and led_task sends the encoding
\* of its array alone.
C13_Deterministic ==
    /\ (encoder = "show" /\ enc_result # "panicked") =>
         sent = FreshShowFrame(enc_colors)
    /\ encoder = "led_task" => sent = led_task_encode(enc_colors)

\* C13 witness: show has sent a one-LED frame while the buffer still holds the
\* pulses of a longer earlier frame behind it.
C13_Witness ==
    /\ encoder = "show"
    /\ Len(enc_colors) = 1
    /\ Len(sent) = 2 * 24 + 1
    /\ rmt_buffer[2 * 24 + 2] # PulseCodeDefault

\* C14: a buffer with fewer slots than one full frame makes the construction
\* fail (LedController::new does not hand out a controller over it), and show
\* never fails while it encodes a frame.
C14_FailsAtConstruction ==
    /\ (encoder = "new" /\ Len(rmt_buffer) < 2 * 24 * EncLedCount + 1)
          => enc_result # "constructed"
    /\ ~(encoder = "show" /\ enc_result = "panicked")

\* The brightness scaling of a byte by a level in 0..255 (255 leaves the byte
\* as it is).
RefBrightness(byte, level) == (byte * (level + 1)) \div 256

\* C15: for some global brightness level in 0..255, every emitted bit is the
\* bit of the channel byte after the gamma lookup followed by the brightness
\* scaling, in show as well as in led_task.
C15_GammaThenBrightness ==
    /\ (encoder = "show" /\ enc_result # "panicked") =>
         \E level \in 0 .. 255 :
            \A i \in 0 .. (Min(Len(enc_colors), EncLedCount) - 1),
               c \in 0 .. 2, k \in 0 .. 7 :
                 ShowFrameBit(sent, 24 * i + 8 * c + k)
                    = RefBit(RefBrightness(gamma(RefGRB(enc_colors[i + 1])[c + 1]),
                                           level), k)
    /\ encoder = "led_task" =>
         \E level \in 0 .. 255 :
            \A i \in 0 .. (Len(enc_colors) - 1), c \in 0 .. 2, k \in 0 .. 7 :
                 LedTaskFrameBit(sent, 24 * i + 8 * c + k)
                    = RefBit(RefBrightness(gamma(RefGRB(enc_colors[i + 1])[c + 1]),
                                           level), k)

\* The (current_menu, active_button) pair a task reading the UI state now
\* gets, and the pair update_display tracks from its last render.
LivePair ==
    LET ui_state == get_ui_state(UI_STATE)[1] IN
    <<ui_state.current_menu, ui_state.active_button>>
TrackedPair == <<current_menu, last_active_button>>

\* C16: the UI state is created once, with current_menu = Main,
\* active_button = 0, user_name = "Guest", wifi_connected = false; once it
\* exists it is never dropped or rebuilt: only a key press changes it, a press
\* of key 4..6 keeps the menu written earlier, and user_name and
\* wifi_connected keep their values.
C16_SingletonPreserved ==
    [][ /\ (UI_STATE = NoneOpt /\ UI_STATE' # NoneOpt) =>
             /\ UI_STATE'[1].user_name = "Guest"
             /\ UI_STATE'[1].wifi_connected = FALSE
             /\ ~KeyPressStep =>
                   /\ UI_STATE'[1].current_menu = "Main"
                   /\ UI_STATE'[1].active_button = 0
        /\ UI_STATE # NoneOpt =>
             /\ UI_STATE' # NoneOpt
             /\ UI_STATE' # UI_STATE => KeyPressStep
             /\ UI_STATE'[1].user_name = UI_STATE[1].user_name
             /\ UI_STATE'[1].wifi_connected = UI_STATE[1].wifi_connected
             /\ \A n \in KeyNumbers :
                   (n > 3 /\ key_pc[n] = "wait_for_falling_edge"
                      /\ key_pc'[n] = "recover")
                   => UI_STATE'[1].current_menu = UI_STATE[1].current_menu ]_vars

\* C16 witness: the menu written by key 2 has survived a press of key 5 and
\* the reads of the display and LED tasks.
C16_Witness ==
    /\ UI_STATE # NoneOpt
    /\ UI_STATE[1].current_menu = "Trip"
    /\ UI_STATE[1].active_button = 4
    /\ TrackedPair = <<"Trip", 4>>
    /\ led_data[4] = WHITE

\* C17: a display tick that finds the live pair different from the tracked
\* pair dispatches exactly one draw routine, the one of the live current_menu
\* (draw_main_screen / draw_trip_screen / draw_settings_screen); a draw is
\* dispatched, and the tracked pair moves, only on such a tick.
C17_OneMatchingDraw ==
    [][ /\ (TrackedPair' # TrackedPair \/ (drawn' # drawn /\ drawn' # NoneOpt)) =>
             /\ LivePair # TrackedPair
             /\ Len(drawn') = 1
             /\ LivePair[1] = "Main" => drawn'[1].routine = "draw_main_screen"
             /\ LivePair[1] = "Trip" => drawn'[1].routine = "draw_trip_screen"
             /\ LivePair[1] = "Settings"
                   => drawn'[1].routine = "draw_settings_screen"
        /\ (drawn' # drawn /\ drawn' = NoneOpt) => LivePair = TrackedPair ]_vars

\* C17 witness: the tick after a press of key 3 has dispatched
\* draw_settings_screen.
C17_Witness ==
    /\ drawn # NoneOpt
    /\ drawn[1].routine = "draw_settings_screen"
    /\ UI_STATE[1].active_button = 2
    /\ TrackedPair = <<"Settings", 2>>

\* C18: while the live pair equals the tracked pair no step dispatches a draw
\* or moves the tracked pair, and only a key press changes the UI state; a
\* tick that draws leaves the tracked pair equal to the live pair, so a second
\* tick over the unchanged pair draws nothing.
C18_UnchangedPairNoDraw ==
    [][ /\ (UI_STATE # NoneOpt /\ LivePair = TrackedPair) =>
             /\ TrackedPair' = TrackedPair
             /\ drawn' # drawn => drawn' = NoneOpt
             /\ ~KeyPressStep => UI_STATE' = UI_STATE
        /\ TrackedPair' # TrackedPair =>
             TrackedPair' = <<UI_STATE'[1].current_menu,
                              UI_STATE'[1].active_button>> ]_vars

\* C18 witness: a tick over an unchanged pair has dispatched nothing.
C18_Witness ==
    /\ UI_STATE # NoneOpt
    /\ drawn = NoneOpt
    /\ LivePair = <<"Settings", 2>>
    /\ TrackedPair = <<"Settings", 2>>

C20_DrawFailureNeverAborts ==
    /\ ~(dt_pc = "panicked" /\ current_screen # "Startup")
    /\ (drawn # NoneOpt /\ drawn[1].result = "Err")
          => (main_pc # "panicked" \/ led_pc = "panicked")

\* C21: every draw highlights button zone j (j in 0..2) exactly when the
\* active_button it was given is j (the value the tick then tracks): at most
\* one zone is highlighted, and none when active_button is 3, 4 or 5.
C21_ZoneHighlight ==
    drawn # NoneOpt =>
        /\ \A j \in 0 .. 2 : drawn[1].zones[j] <=> (last_active_button = j)
        /\ Cardinality({ j \in 0 .. 2 : drawn[1].zones[j] }) <= 1
        /\ last_active_button \in 3 .. 5
              => Cardinality({ j \in 0 .. 2 : drawn[1].zones[j] }) = 0

\* C21 witness: the Trip screen has been drawn with active_button = 4, no
\* zone highlighted.
C21_Witness ==
    /\ drawn # NoneOpt
    /\ drawn[1].routine = "draw_trip_screen"
    /\ last_active_button = 4
    /\ \A j \in 0 .. 2 : ~drawn[1].zones[j]

\* C22: from (Main, 0), a press of the key with index 1 leaves
\* active_button = 1 and current_menu = Trip, and the display tick that
\* follows (still tracking (Main, 0)) dispatches draw_trip_screen with zone 0
\* (Back) highlighted.
C22_PressTripScenario ==
    [][ /\ (LivePair = <<"Main", 0>> /\ key_pc[2] = "wait_for_falling_edge"
              /\ key_pc'[2] = "recover")
           => (UI_STATE'[1].active_button = 1
                 /\ UI_STATE'[1].current_menu = "Trip")
        /\ (LivePair = <<"Trip", 1>> /\ TrackedPair = <<"Main", 0>>
              /\ drawn' # drawn)
           => (drawn' # NoneOpt /\ drawn'[1].routine = "draw_trip_screen"
                 /\ drawn'[1].zones[0]) ]_vars

\* C23: a pass of led_task leaves the active colour (white) at exactly the
\* index equal to active_button as read in that pass, and the dim idle colour
\* at the other five indices.
C23_OneActiveLed ==
    [][ led_data' # led_data =>
          /\ \A i \in Keys :
                led_data'[i] = IF i = LivePair[2] THEN RGB(255, 255, 255)
                               ELSE RGB(0, 0, 32)
          /\ Cardinality({ i \in Keys : led_data'[i] = RGB(255, 255, 255) }) = 1
          /\ Cardinality({ i \in Keys : led_data'[i] = RGB(0, 0, 32) })
                = LED_COUNT - 1 ]_vars

\* C23 witness: the LED of key 4 is the single white one.
C23_Witness ==
    /\ UI_STATE # NoneOpt
    /\ UI_STATE[1].active_button = 3
    /\ led_data[3] = WHITE
    /\ led_data[0] = DIM_BLUE

C26_NoResidue ==
    [][ \A na \in KeyNumbers :
          (key_pc[na] = "wait_for_falling_edge" /\ key_pc'[na] = "recover") =>
             \A nb \in KeyNumbers \ {na} :
                LET before == key_write(get_ui_state(UI_STATE)[1], key_index(nb))
                    after  == key_write(UI_STATE'[1], key_index(nb))
                IN  /\ after.active_button = before.active_button
                    /\ after.current_menu = before.current_menu ]_vars

\* C26: when a key handles a press while another key that has just handled
\* one is still in its recovery delay, active_button becomes the index of the
\* key that ran last; current_menu becomes that key's menu when its index is
\* 0, 1 or 2, and otherwise stays as the earlier writers left it; user_name
\* and wifi_connected are untouched.
C26_LastWriterPerField ==
    [][ \A nb \in KeyNumbers :
          ( /\ key_pc[nb] = "wait_for_falling_edge"
            /\ key_pc'[nb] = "recover"
            /\ \E na \in KeyNumbers \ {nb} : key_pc[na] = "recover" ) =>
             LET old == get_ui_state(UI_STATE)[1]
                 new == UI_STATE'[1]
                 kb  == nb - 1
             IN  /\ new.active_button = kb
                 /\ kb = 0 => new.current_menu = "Main"
                 /\ kb = 1 => new.current_menu = "Trip"
                 /\ kb = 2 => new.current_menu = "Settings"
                 /\ kb >= 3 => new.current_menu = old.current_menu
                 /\ new.user_name = old.user_name
                 /\ new.wifi_connected = old.wifi_connected ]_vars

\* C26 witness: keys 2 and 4 have both handled a press, key 4 last, and the
\* menu is the one key 2 wrote, between two display ticks.
C26_Witness ==
    /\ key_pc[2] = "recover"
    /\ key_pc[4] = "recover"
    /\ LivePair = <<"Trip", 3>>
    /\ TrackedPair = <<"Main", 0>>

\* C27: a key_watcher writes the UI state only after the debounce engine has
\* been run for the press and has taken the button out of Idle.
C27_WriteAfterDebounce ==
    [][ KeyPressStep =>
          /\ w_pc # "not_called"
          /\ button.state # "Idle" ]_vars

\* C28: when startup is aborted by a failed initialisation, no task has run:
\* the UI state does not exist, nothing has been drawn, no key has been
\* handled and the backlight has not been toggled.
C28_AbortBeforeAnyTask ==
    main_pc = "panicked" =>
        /\ UI_STATE = NoneOpt
        /\ drawn = NoneOpt
        /\ \A n \in KeyNumbers : key_pc[n] = "wait_for_falling_edge"
        /\ backlight = TRUE

\* C24: a failed transmission never aborts the LED loop: the loop is left
\* only by an encoding that overruns the buffer, never by a transmit result,
\* and after a transmit error the next pass (build the frame, transmit it)
\* can be taken.
C24_TransmitErrorKeepsLoop ==
    /\ enc_result = "panicked" =>
          (encoder = "show" /\ Len(enc_colors) > EncLedCount)
    /\ (enc_result = "Err" /\ encoder = "led_task") => ENABLED LedTaskEncode
    /\ (enc_result = "Err" /\ encoder = "show") => ENABLED Show

\* C24 witness: led_task has built and handed over a whole frame and the
\* transmission has failed.
C24_Witness ==
    /\ encoder = "led_task"
    /\ enc_result = "Err"
    /\ Len(enc_colors) = EncLedCount
    /\ sent # <<>>
    /\ sent = led_task_encode(enc_colors)

\* C29: get_active_button returns Some(i) for the lowest index i whose
\* BUTTON_STATES entry is Pressed, and None exactly when no entry is Pressed;
\* an Idle or Released entry is never returned.
C29_LowestPressed ==
    [][ gab_ret' # gab_ret =>
          LET r == gab_ret'[1] IN
            /\ (r = NoneOpt) <=> (\A i \in Keys : BUTTON_STATES[i] # "Pressed")
            /\ r # NoneOpt =>
                  /\ r[1] \in Keys
                  /\ BUTTON_STATES[r[1]] = "Pressed"
                  /\ \A j \in 0 .. (r[1] - 1) : BUTTON_STATES[j] # "Pressed" ]_vars

\* C29 witness: buttons 2 and 4 are Pressed and the call has returned
\* Some(2).
C29_Witness ==
    /\ BUTTON_STATES[2] = "Pressed"
    /\ BUTTON_STATES[4] = "Pressed"
    /\ gab_ret = Some(Some(2))

\* C30: wait_for_button_press returns i only after button i has been released:
\* at the return, the state of button i has left Pressed.
C30_ReturnsAfterRelease ==
    [][ (wfb_pc' = "returned" /\ wfb_ret' # NoneOpt)
          => BUTTON_STATES'[wfb_ret'[1]] # "Pressed" ]_vars

\* C31: in every state a task can observe, active_button and current_menu
\* are consistent: active_button = 0 implies Main, 1 implies Trip, 2 implies
\* Settings.
C31_ButtonMenuConsistent ==
    UI_STATE # NoneOpt =>
        /\ UI_STATE[1].active_button = 0 => UI_STATE[1].current_menu = "Main"
        /\ UI_STATE[1].active_button = 1 => UI_STATE[1].current_menu = "Trip"
        /\ UI_STATE[1].active_button = 2 => UI_STATE[1].current_menu = "Settings"

\* C31 witness: the press of key 2 is observed whole by the LED task while the
\* display has not yet run.
C31_Witness ==
    /\ LivePair = <<"Trip", 1>>
    /\ key_pc[2] = "recover"
    /\ led_data[1] = WHITE
    /\ last_active_button = 99

\* C32: a press handled by the key_watcher of key k sets active_button = k,
\* sets current_menu to Main / Trip / Settings for k = 0 / 1 / 2, leaves it
\* unchanged for k = 3, 4, 5, and leaves user_name and wifi_connected alone.
C32_PressFrame ==
    [][ \A n \in KeyNumbers :
          (key_pc[n] = "wait_for_falling_edge" /\ key_pc'[n] = "recover") =>
             LET old == get_ui_state(UI_STATE)[1]
                 new == UI_STATE'[1]
                 k   == n - 1
             IN  /\ UI_STATE' # NoneOpt
                 /\ new.active_button = k
                 /\ new.current_menu =
                       (IF k = 0 THEN "Main" ELSE IF k = 1 THEN "Trip"
                        ELSE IF k = 2 THEN "Settings" ELSE old.current_menu)
                 /\ new.user_name = old.user_name
                 /\ new.wifi_connected = old.wifi_connected
                 /\ new.user_name = "Guest"
                 /\ new.wifi_connected = FALSE ]_vars

\* C32 witness: key 6 has been handled on the Settings menu and the menu is
\* still Settings.
C32_Witness ==
    /\ LivePair = <<"Settings", 5>>
    /\ key_pc[6] = "recover"
    /\ UI_STATE[1].user_name = "Guest"

\* C33: the tracked button index is 99 until the first display tick and a
\* valid index below 6 ever after; while it is 99 nothing has been drawn, and
\* the first tick cannot but dispatch the draw of the current UI state,
\* whatever that state is, and track its pair.
C33_FirstTickDraws ==
    /\ [](main_pc = "init_display" => last_active_button = 99)
    /\ [](last_active_button \in Keys \cup {99})
    /\ [](last_active_button = 99 => drawn = NoneOpt)
    /\ []((last_active_button = 99 /\ Runs("update_display")) =>
            /\ ENABLED DisplayTick
            /\ ~ENABLED (DisplayTick /\ drawn' = NoneOpt))
    /\ [][ (last_active_button \in Keys) => (last_active_button' \in Keys) ]_vars
    /\ [][ (last_active_button = 99 /\ drawn' # drawn) =>
             /\ drawn' # NoneOpt
             /\ TrackedPair' = LivePair
             /\ last_active_button' \in Keys
             /\ drawn'[1].routine = draw_routine(LivePair[1])
             /\ \A j \in 0 .. 2 : drawn'[1].zones[j] <=> (LivePair[2] = j) ]_vars

\* C33 witness: the first tick has drawn the untouched default state.
C33_Witness ==
    /\ drawn # NoneOpt
    /\ drawn[1].routine = "draw_main_screen"
    /\ TrackedPair = <<"Main", 0>>
    /\ \A n \in KeyNumbers : key_pc[n] = "wait_for_falling_edge"
    /\ UI_STATE = Some(init_ui_state)

\* C39: after any sequence of update_state and process_long_press calls on a
\* Button made by Button::new, last_action agrees with state: Press implies
\* Pressed, LongPress implies LongPressed, Release implies Idle.
C39_LastActionAgreesWithState ==
    /\ button.last_action = "Press" => button.state = "Pressed"
    /\ button.last_action = "LongPress" => button.state = "LongPressed"
    /\ button.last_action = "Release" => button.state = "Idle"

\* C39 witness: a long-pressed Button has just been released by update_state.
C39_Witness ==
    /\ call = Some(<<"update_state", FALSE, "LongPressed">>)
    /\ button.last_action = "Release"
    /\ button.state = "Idle"

\* C34: on every tick of led_animation_task LED i is white if and only if
\* button i's shared state is Pressed at that tick, and for Idle and Released
\* it has base colour i; so the frame has as many white LEDs as there are
\* Pressed buttons, none when none is Pressed.
C34_WhiteIffPressed ==
    [][ (current_colors' # current_colors \/ anim_result' # anim_result) =>
          /\ \A i \in Keys :
                /\ (current_colors'[i] = "WHITE") <=> (BUTTON_STATES[i] = "Pressed")
                /\ BUTTON_STATES[i] \in {"Idle", "Released"}
                      => current_colors'[i] = base_colors[i]
          /\ Cardinality({ i \in Keys : current_colors'[i] = "WHITE" })
                = Cardinality({ i \in Keys : BUTTON_STATES[i] = "Pressed" }) ]_vars

\* C34 witness: two LEDs are white in one frame, LED 0 has its base colour.
C34_Witness ==
    /\ current_colors[1] = "WHITE"
    /\ current_colors[4] = "WHITE"
    /\ current_colors[0] = "DIM_RED"
    /\ BUTTON_STATES[1] = "Pressed"
    /\ BUTTON_STATES[4] = "Pressed"
    /\ anim_result = "Err"

\* C38: set_led with index >= NUM_LEDS returns Err("LED index out of bounds"),
\* leaves every stored colour unchanged and hands nothing to the adapter;
\* with index < NUM_LEDS it stores the colour at that index alone and then
\* hands the stored colours to the adapter.
C38_SetLedBounds ==
    [][ strip_ret' # strip_ret =>
          LET index == strip_ret'[2]
              color == strip_ret'[3]
              r     == strip_ret'[4]
          IN  IF index >= 6
              THEN /\ r = "LED index out of bounds"
                   /\ strip_data' = strip_data
                   /\ strip_written' = NoneOpt
              ELSE /\ r \in {"Ok", "Failed to write to LED strip"}
                   /\ strip_data'[index] = color
                   /\ \A i \in StripLeds \ {index} : strip_data'[i] = strip_data[i]
                   /\ strip_written' = Some(strip_data') ]_vars

\* C38 witness: a call with index NUM_LEDS has been refused after colours had
\* been stored, and they are all still there.
C38_Witness ==
    /\ strip_ret = <<"set_led", 6, WHITE, "LED index out of bounds">>
    /\ strip_written = NoneOpt
    /\ strip_data[5] = DIM_BLUE
    /\ strip_data[0] = WHITE

\* C35: a button's shared state becomes Released only from Pressed, on a poll
\* that reads the pin high; a Released state can always be followed by Idle,
\* whatever the pin level, and is followed by nothing else: never directly by
\* Pressed.
C35_ReleasedThenIdle ==
    /\ [](\A i \in Keys : BUTTON_STATES[i] = "Released" =>
             /\ bt_pc[i] = "release_delay"
             /\ ENABLED ButtonTaskReset(i))
    /\ [][ \A i \in Keys :
             /\ (BUTTON_STATES'[i] = "Released" /\ BUTTON_STATES[i] # "Released")
                   => (BUTTON_STATES[i] = "Pressed" /\ button_pin[i] = "High")
             /\ (BUTTON_STATES[i] = "Released" /\ BUTTON_STATES'[i] # "Released")
                   => BUTTON_STATES'[i] = "Idle" ]_vars

\* C35 witness: a button is Released while its pin is low again, and another
\* button has gone through Released back to Idle and is Pressed again.
C35_Witness ==
    /\ BUTTON_STATES[3] = "Released"
    /\ button_pin[3] = "Low"
    /\ BUTTON_STATES[0] = "Pressed"

\* The lowest Pressed index of BUTTON_STATES, or 6 when there is none.
LowestPressed ==
    IF \A i \in Keys : BUTTON_STATES[i] # "Pressed" THEN 6
    ELSE CHOOSE i \in Keys :
            /\ BUTTON_STATES[i] = "Pressed"
            /\ \A j \in 0 .. (i - 1) : BUTTON_STATES[j] # "Pressed"

\* The screen display_task is on after a pass that handles LowestPressed.
ScreenAfterPass ==
    IF current_screen = "Main" /\ LowestPressed = 1 THEN "Trip"
    ELSE IF current_screen = "Main" /\ LowestPressed = 2 THEN "Settings"
    ELSE IF current_screen \in {"Trip", "Settings"} /\ LowestPressed = 0 THEN "Main"
    ELSE current_screen

\* C36: after the switch from Startup to Main that ends the start-up wait, the
\* screen of display_task changes only by Main -> Trip while button 1 is
\* Pressed, Main -> Settings while button 2 is Pressed, Trip -> Main and
\* Settings -> Main while button 0 is Pressed; a pass for any other (screen,
\* button) pair leaves the screen unchanged, and Startup is never re-entered.
C36_ScreenTransitions ==
    /\ [](dt_pc = "loop" =>
            ~ENABLED (DisplayTaskTick /\ dt_pc' = "loop"
                        /\ current_screen' # ScreenAfterPass))
    /\ [][ current_screen' # current_screen =>
             /\ current_screen' # "Startup"
             /\ \/ /\ current_screen = "Startup"
                   /\ current_screen' = "Main"
                   /\ dt_pc = "startup_wait"
                \/ /\ current_screen = "Main"
                   /\ current_screen' = "Trip"
                   /\ BUTTON_STATES[1] = "Pressed"
                \/ /\ current_screen = "Main"
                   /\ current_screen' = "Settings"
                   /\ BUTTON_STATES[2] = "Pressed"
                \/ /\ current_screen \in {"Trip", "Settings"}
                   /\ current_screen' = "Main"
                   /\ BUTTON_STATES[0] = "Pressed" ]_vars

\* C36 witness: the Settings screen has been entered with button 2 Pressed.
C36_Witness ==
    /\ current_screen = "Settings"
    /\ BUTTON_STATES[2] = "Pressed"
    /\ layout = [labels |-> "SETTINGS_BUTTONS", active_index |-> 0]
    /\ dt_pc = "loop"

\* C37: ACTIVE_BUTTON is always an index in 0..5; a pass of the main loop
\* with a Pressed button cannot but leave it at the lowest Pressed index, and
\* it changes in no other way: with no button Pressed it keeps its value, the
\* last pressed index, after the release.
C37_ActiveButtonLowestPressed ==
    /\ [](ACTIVE_BUTTON \in 0 .. 5)
    /\ [](ENABLED MainLoopPass
           /\ ~ENABLED (MainLoopPass /\ ACTIVE_BUTTON' #
                          (IF LowestPressed = 6 THEN ACTIVE_BUTTON
                           ELSE LowestPressed)))
    /\ [][ ACTIVE_BUTTON' # ACTIVE_BUTTON =>
             /\ LowestPressed # 6
             /\ ACTIVE_BUTTON' = LowestPressed ]_vars

\* C37 witness: ACTIVE_BUTTON holds the lower of two Pressed indices.
C37_Witness ==
    /\ ACTIVE_BUTTON = 3
    /\ BUTTON_STATES[3] = "Pressed"
    /\ BUTTON_STATES[5] = "Pressed"

\* The same index kept after the release, with every button Idle again.
C37_KeptAfterRelease ==
    /\ ACTIVE_BUTTON = 3
    /\ \A i \in Keys : BUTTON_STATES[i] = "Idle"

\* C40: a falling edge of a key whose key_watcher is in its recovery delay
\* writes nothing into the UI state and does not restart the delay; so after
\* key A and then key B have been handled, a bounce of A inside A's window
\* leaves the UI state as B wrote it.
C40_EdgeInRecoveryIgnored ==
    [][ \A n \in KeyNumbers :
          (last_edge' = n /\ last_edge # n /\ key_pc[n] = "recover") =>
             /\ UI_STATE' = UI_STATE
             /\ key_pc' = key_pc ]_vars

\* C40 witness: key 1 and then key 2 have been handled, both are recovering,
\* the latest edge is a bounce of key 1 and the UI state is the one key 2
\* wrote.
C40_Witness ==
    /\ last_edge = 1
    /\ key_pc[1] = "recover"
    /\ key_pc[2] = "recover"
    /\ LivePair = <<"Trip", 1>>
    /\ UI_STATE # NoneOpt

====
